---- MODULE Spec2Model ----
(***************************************************************************)
(* Pipeline / stage / manager core of the repository, as implemented three *)
(* times: nexus_pipeline.py ("nexus"), ex3.py ("ex3") and ex.py ("ex").    *)
(*                                                                         *)
(* Python values.  A text is a sequence of symbols; every symbol stands    *)
(* for a fixed non-empty comma-free piece of a str, except the symbol ","  *)
(* which is the comma itself, so `"," in s` and `s.split(",")` are exact.  *)
(* A number carries its printed literal and its value in tenths.  A dict   *)
(* is a total function over Keys whose missing keys map to Absent (key     *)
(* order is not modelled: the code never depends on it).                   *)
(***************************************************************************)
EXTENDS Integers, Sequences, FiniteSets, TLC

\* ------------------------------------------------------------------ bounds
MaxStages == 3
MaxLen == 3
MaxPipes == 2
MaxReg == 2

\* ------------------------------------------------------------ Python values
Keys == {"sensor", "value", "unit", "status", "type", "data", "headers", "count", "sfga"}

Absent == [ty |-> "absent", txt |-> <<>>, num |-> 0, lst |-> <<>>]
VStr(t) == [ty |-> "str", txt |-> t, num |-> 0, lst |-> <<>>]
VNum(lit, n) == [ty |-> "num", txt |-> <<lit>>, num |-> n, lst |-> <<>>]
VList(l) == [ty |-> "list", txt |-> <<>>, num |-> 0, lst |-> l]

EmptyRec == [k \in Keys |-> Absent]

PNone == [ty |-> "none", txt |-> <<>>, num |-> 0, rec |-> EmptyRec]
PStr(t) == [ty |-> "str", txt |-> t, num |-> 0, rec |-> EmptyRec]
PNum(lit, n) == [ty |-> "num", txt |-> <<lit>>, num |-> n, rec |-> EmptyRec]
PDict(r) == [ty |-> "dict", txt |-> <<>>, num |-> 0, rec |-> r]

IsDict(d) == d.ty = "dict"
IsStr(d) == d.ty = "str"
\* `key in d`
Has(d, k) == d.rec[k].ty # "absent"
\* d[key] = v  (in place)
SetKey(d, k, v) == [d EXCEPT !.rec[k] = v]
\* bool(d): None, "", 0 and {} are falsy
Truthy(d) ==
  CASE d.ty = "none" -> FALSE
    [] d.ty = "str" -> d.txt # <<>>
    [] d.ty = "num" -> d.num # 0
    [] d.ty = "dict" -> \E k \in Keys : Has(d, k)
    [] OTHER -> TRUE

\* `"," in s`
HasComma(t) == \E i \in 1..Len(t) : t[i] = ","

\* s.split(","): always (number of commas + 1) tokens, empty tokens kept
RECURSIVE SplitFrom(_, _, _)
SplitFrom(t, i, tok) ==
  IF i > Len(t) THEN <<tok>>
  ELSE IF t[i] = "," THEN <<tok>> \o SplitFrom(t, i + 1, <<>>)
  ELSE SplitFrom(t, i + 1, Append(tok, t[i]))

\* (mutant) the tokens come out last first
RECURSIVE Split_reversed(_)
Split_reversed(t) ==
  IF ~HasComma(t) THEN <<t>>
  ELSE LET i == CHOOSE j \in 1..Len(t) : t[j] = "," /\ \A k \in 1..(j - 1) : t[k] # "," IN
         Append(Split_reversed(SubSeq(t, i + 1, Len(t))), SubSeq(t, 1, i - 1))

Split(t) == SplitFrom(t, 1, <<>>)

\* str(v) as used inside an f-string; d.get(k) of a missing key is None
RECURSIVE ListRepr(_, _)
ListRepr(l, i) ==
  IF i > Len(l) THEN <<>>
  ELSE (IF i > 1 THEN <<",", " ">> ELSE <<>>) \o <<"'">> \o l[i] \o <<"'">> \o ListRepr(l, i + 1)

PyStr(v) ==
  CASE v.ty = "absent" -> <<"None">>
    [] v.ty = "str" -> v.txt
    [] v.ty = "num" -> v.txt
    [] v.ty = "list" -> <<"[">> \o ListRepr(v.lst, 1) \o <<"]">>

\* ----------------------------------------------------------- stage results
\* same: the returned object is the very object that was passed in
\* note: the line the stage prints after its label (Transform / Output)
Ok(v, sm, nt) == [st |-> "ok", val |-> v, exc |-> "", msg |-> "", same |-> sm, note |-> nt]
Raise(e, m) == [st |-> "raise", val |-> PNone, exc |-> e, msg |-> m, same |-> FALSE, note |-> <<>>]

\* ------------------------------------------------------- nexus_pipeline.py
\* (mutant) the intake stage hands on an empty record in place of a record
nexus_InputStage_process_wipe(data) ==
  IF ~Truthy(data) THEN Raise("ValueError", "Data is empty")
  ELSE IF IsDict(data) THEN Ok(PDict(EmptyRec), FALSE, <<>>)
  ELSE Ok(data, TRUE, <<>>)

nexus_InputStage_process(data) ==
  IF ~Truthy(data) THEN Raise("ValueError", "Data is empty")
  ELSE Ok(data, TRUE, <<>>)

\* (mutant) count is the number of tokens
nexus_TransformStage_process_count(data) ==
  IF IsDict(data) /\ Has(data, "sensor")
    THEN Ok(SetKey(data, "sensor", VStr(<<"valid">>)), TRUE,
            <<"Enriched with metadata and validation">>)
  ELSE IF IsStr(data) /\ HasComma(data.txt)
    THEN Ok(PDict([EmptyRec EXCEPT !["type"] = VStr(<<"csv">>),
                                   !["data"] = VList(Split(data.txt)),
                                   !["count"] = VNum(ToString(Len(Split(data.txt))),
                                                     10 * Len(Split(data.txt)))]), FALSE,
            <<"Parsed and structured data">>)
  ELSE IF IsDict(data) /\ ~Has(data, "sensor")
    THEN Raise("ValueError", "Invalid data format")
  ELSE Ok(data, TRUE, <<"Aggregated and filtered">>)

\* (mutant) a record without "sensor" is passed on instead of being rejected
nexus_TransformStage_process_lenient(data) ==
  IF IsDict(data) /\ Has(data, "sensor")
    THEN Ok(SetKey(data, "sensor", VStr(<<"valid">>)), TRUE,
            <<"Enriched with metadata and validation">>)
  ELSE IF IsStr(data) /\ HasComma(data.txt)
    THEN Ok(PDict([EmptyRec EXCEPT !["type"] = VStr(<<"csv">>),
                                   !["data"] = VList(Split(data.txt)),
                                   !["count"] = VNum("1", 10)]), FALSE,
            <<"Parsed and structured data">>)
  ELSE Ok(data, TRUE, <<"Aggregated and filtered">>)

nexus_TransformStage_process(data) ==
  IF IsDict(data) /\ Has(data, "sensor")
    THEN Ok(SetKey(data, "sensor", VStr(<<"valid">>)), TRUE,
            <<"Enriched with metadata and validation">>)
  ELSE IF IsStr(data) /\ HasComma(data.txt)
    THEN Ok(PDict([EmptyRec EXCEPT !["type"] = VStr(<<"csv">>),
                                   !["data"] = VList(Split(data.txt)),
                                   !["count"] = VNum("1", 10)]), FALSE,
            <<"Parsed and structured data">>)
  ELSE IF IsDict(data) /\ ~Has(data, "sensor")
    THEN Raise("ValueError", "Invalid data format")
  ELSE Ok(data, TRUE, <<"Aggregated and filtered">>)

\* (mutant) the stage returns the string it rendered
nexus_OutputStage_process_rendered(data) ==
  IF IsDict(data) /\ Has(data, "sensor")
    THEN Ok(PStr(<<"Processed temperature reading: ">>
                 \o PyStr(data.rec["value"]) \o <<"°C (Normal range)">>), FALSE, <<>>)
  ELSE Ok(data, TRUE, <<>>)

nexus_OutputStage_process(data) ==
  IF IsDict(data) THEN
    IF Has(data, "sensor")
      THEN Ok(data, TRUE, <<"Processed temperature reading: ">>
                          \o PyStr(data.rec["value"]) \o <<"°C (Normal range)">>)
    ELSE IF ~Has(data, "type") THEN Raise("KeyError", "type")
    ELSE IF data.rec["type"] = VStr(<<"csv">>)
      THEN Ok(data, TRUE, <<"User activity logged: ">> \o PyStr(data.rec["count"])
                          \o <<" actions processed">>)
    ELSE Ok(data, TRUE, <<"Unknow result">>)
  ELSE Ok(data, TRUE, <<"Stream summary: 5 readings, avg: 22.1°C">>)

\* ------------------------------------------------------------------ ex3.py
ex3_InputStage_process(payload) ==
  IF ~Truthy(payload) THEN Raise("ValueError", "Empty data received")
  ELSE Ok(payload, TRUE, <<>>)

ex3_TransformStage_process(payload) ==
  IF IsDict(payload) /\ Has(payload, "sensor")
    THEN Ok(SetKey(payload, "status", VStr(<<"valid">>)), TRUE,
            <<"Enriched with metadata and validation">>)
  ELSE IF IsStr(payload) /\ HasComma(payload.txt)
    THEN Ok(PDict([EmptyRec EXCEPT !["type"] = VStr(<<"csv">>),
                                   !["headers"] = VList(Split(payload.txt)),
                                   !["count"] = VNum("1", 10)]), FALSE,
            <<"Parsed and structured data">>)
  ELSE IF payload = PStr(<<"INVALID_DATA">>)
    THEN Raise("ValueError", "Invalid data format")
  ELSE Ok(payload, TRUE, <<"Aggregated and filtered">>)

ex3_OutputResult(payload) ==
  IF IsDict(payload) THEN
    IF Has(payload, "sensor")
      THEN <<"Processed temperature reading: ">> \o PyStr(payload.rec["value"])
           \o <<"°C (Normal range)">>
    ELSE IF payload.rec["type"] = VStr(<<"csv">>)
      THEN <<"User activity logged: ">> \o PyStr(payload.rec["count"])
           \o <<" actions processed">>
    ELSE <<>>
  ELSE <<"Stream summary: 5 readings, avg: 22.1°C">>

ex3_OutputStage_process(payload) ==
  Ok(PStr(ex3_OutputResult(payload)), FALSE, ex3_OutputResult(payload))

\* ------------------------------------------------------------------- ex.py
ex_InputStage_process(data) == Ok(data, TRUE, <<>>)

\* number of tokens equal to "action"
RECURSIVE CountAction(_, _)
CountAction(toks, i) ==
  IF i > Len(toks) THEN 0
  ELSE (IF toks[i] = <<"action">> THEN 1 ELSE 0) + CountAction(toks, i + 1)

ex_Range(temp) ==
  IF temp.num > 400 THEN " (High range)"
  ELSE IF temp.num < 0 THEN " (Low range)"
  ELSE " (Normal range)"

\* the body of the try block raises KeyError (missing "value" or "unit") or
\* TypeError (a "value" that is not a number compared with 40)
ex_TransformRaises(data) ==
  /\ data.ty = "dict"
  /\ \/ ~Has(data, "value")
     \/ ~Has(data, "unit")
     \/ data.rec["value"].ty # "num"

ex_TransformStage_process(data) ==
  IF ex_TransformRaises(data) THEN Ok(data, TRUE, <<>>)
  ELSE IF data.ty = "dict"
    THEN Ok(PStr(<<"Processed temperature reading: ">> \o PyStr(data.rec["value"])
                 \o <<"°">> \o PyStr(data.rec["unit"]) \o <<ex_Range(data.rec["value"])>>),
            FALSE, <<>>)
  ELSE IF data.ty = "str"
    THEN IF Len(Split(data.txt)) > 1
           THEN Ok(PStr(<<"User activity logged: ", ToString(CountAction(Split(data.txt), 1)),
                          " actions processed">>), FALSE, <<>>)
           ELSE Ok(PStr(<<"Stream summary: 5 readings, avg: 22.1°C">>), FALSE, <<>>)
  ELSE Ok(PStr(<<>>), FALSE, <<>>)

ex_OutputStage_process(data) == Ok(data, TRUE, <<>>)

\* ------------------------------------------------- stage.process dispatch
Impls == {"nexus", "ex3", "ex"}
StageKinds == {"InputStage", "TransformStage", "OutputStage"}

StageProcess(im, stage, data) ==
  CASE im = "nexus" /\ stage = "InputStage" -> nexus_InputStage_process(data)
    [] im = "nexus" /\ stage = "TransformStage" -> nexus_TransformStage_process(data)
    [] im = "nexus" /\ stage = "OutputStage" -> nexus_OutputStage_process(data)
    [] im = "ex3" /\ stage = "InputStage" -> ex3_InputStage_process(data)
    [] im = "ex3" /\ stage = "TransformStage" -> ex3_TransformStage_process(data)
    [] im = "ex3" /\ stage = "OutputStage" -> ex3_OutputStage_process(data)
    [] im = "ex" /\ stage = "InputStage" -> ex_InputStage_process(data)
    [] im = "ex" /\ stage = "TransformStage" -> ex_TransformStage_process(data)
    [] im = "ex" /\ stage = "OutputStage" -> ex_OutputStage_process(data)

\* ------------------------------------------------------------------ inputs
Alphabet == {"action", ","}

RECURSIVE SeqsUpTo(_, _)
SeqsUpTo(S, n) ==
  IF n = 0 THEN {<<>>}
  ELSE SeqsUpTo(S, n - 1) \cup {Append(q, x) : q \in {r \in SeqsUpTo(S, n - 1) : Len(r) = n - 1}, x \in S}

\* the literals of the three main programs
CsvText == <<"user", ",", "action", ",", "timestamp">>
StreamText == <<"Real-time sensor stream">>
InvalidText == <<"INVALID_DATA">>

Texts == SeqsUpTo(Alphabet, MaxLen) \cup {CsvText, StreamText, InvalidText}

Records ==
  { [EmptyRec EXCEPT !["sensor"] = s, !["value"] = v, !["unit"] = u, !["type"] = t, !["sfga"] = g] :
      s \in {Absent, VStr(<<"temp">>)},
      v \in {Absent, VNum("23.5", 235), VNum("45", 450)},
      u \in {Absent, VStr(<<"C">>)},
      t \in {Absent, VStr(<<"csv">>), VStr(<<"x">>)},
      g \in {Absent, VStr(<<"temp">>)} }

Payloads ==
  {PDict(r) : r \in Records} \cup {PStr(t) : t \in Texts}
    \cup {PNone, PNum("0", 0), PNum("5", 50)}

SensorRecord == PDict([EmptyRec EXCEPT !["sensor"] = VStr(<<"temp">>),
                                       !["value"] = VNum("23.5", 235),
                                       !["unit"] = VStr(<<"C">>)])
BadRecord == PDict([EmptyRec EXCEPT !["sfga"] = VStr(<<"temp">>)])

\* the requests the manager is driven with
RoutePayloads ==
  {SensorRecord, BadRecord, PStr(CsvText), PStr(StreamText), PStr(InvalidText), PStr(<<>>)}
Formats == {"json", "csv", "stream", "xml"}
Classes == {"JSONAdapter", "CSVAdapter", "StreamAdapter"}

\* ------------------------------------------------------------------- state
VARIABLES
  impl,      \* which of the three source files is running
  pipes,     \* the ProcessingPipeline objects, in construction order: [cls, stages]
  registry,  \* NexusManager.pipeline(s): indices into pipes, in registration order
  pc,        \* position of the current call
  req,       \* the current call: [via, data, fmt]
  sel,       \* selected_pipeline (index into pipes), 0 for None
  idx,       \* position of the for loop over self.stages
  cur,       \* tmp_data / current_payload
  arg,       \* the caller's payload object (mutated in place by aliasing stages)
  alias,     \* cur is still the caller's object
  trace,     \* the stages executed by the current call, in order: <<pipe, position>>
  outcome,   \* how the current call ended
  failedBefore,  \* some earlier call ended in a failure
  printed    \* the Transform: / Output: lines printed by the current call, in order

vars ==
  <<impl, pipes, registry, pc, req, sel, idx, cur, arg, alias, trace, outcome, failedBefore, printed>>

NoReq == [via |-> "none", data |-> PNone, fmt |-> ""]
NoOutcome == [kind |-> "none", val |-> PNone, exc |-> "", msg |-> "", tag |-> ""]

Terminal == {"completed", "aborted", "reported"}

\* ProcessingPipeline.__init__
NewPipeline(c) == [cls |-> c, stages |-> <<>>]

InitCall ==
  /\ pc = "idle" /\ req = NoReq /\ sel = 0 /\ idx = 0 /\ cur = PNone
  /\ arg = PNone /\ alias = FALSE /\ trace = <<>> /\ outcome = NoOutcome
  /\ failedBefore = FALSE
  /\ printed = <<>>

\* a NexusManager without pipelines (nexus_pipeline.py and ex3.py route by format)
Init ==
  /\ impl \in {"nexus", "ex3"}
  /\ pipes = <<>>
  /\ registry = <<>>
  /\ InitCall

\* one pipeline of any adapter class, no manager involved
InitPipe ==
  /\ impl \in Impls
  /\ \E c \in Classes : pipes = <<NewPipeline(c)>>
  /\ registry = <<>>
  /\ InitCall

callVars == <<pc, req, sel, idx, cur, arg, alias, trace, outcome, failedBefore, printed>>

\* main: a pipeline of one of the adapter classes is constructed and the three
\* stage instances are attached to it in the order input, transform, output
CreatePipeline(c) ==
  /\ pc = "idle"
  /\ Len(pipes) < MaxPipes
  /\ pipes' = Append(pipes, [NewPipeline(c) EXCEPT
                               !.stages = <<"InputStage", "TransformStage", "OutputStage">>])
  /\ UNCHANGED <<impl, registry, callVars>>

\* ProcessingPipeline.add_stage
AddStage(p, s) ==
  /\ pc = "idle"
  /\ p \in 1..Len(pipes)
  /\ Len(pipes[p].stages) < MaxStages
  /\ pipes' = [pipes EXCEPT ![p].stages = Append(@, s)]
  /\ UNCHANGED <<impl, registry, callVars>>

\* NexusManager.add_pipeline
AddPipeline(p) ==
  /\ pc = "idle"
  /\ p \in 1..Len(pipes)
  /\ Len(registry) < MaxReg
  /\ registry' = Append(registry, p)
  /\ UNCHANGED <<impl, pipes, callVars>>

\* isinstance(pipeline, XAdapter) and format == "x"
Matches(c, fmt) ==
  \/ c = "JSONAdapter" /\ fmt = "json"
  \/ c = "CSVAdapter" /\ fmt = "csv"
  \/ c = "StreamAdapter" /\ fmt = "stream"

\* the for loop of process_data: the first pipeline that matches, with break
RECURSIVE ScanFrom(_, _, _, _)
ScanFrom(reg, ps, fmt, i) ==
  IF i > Len(reg) THEN 0
  ELSE IF Matches(ps[reg[i]].cls, fmt) THEN reg[i]
  ELSE ScanFrom(reg, ps, fmt, i + 1)

\* (mutant) no break: the last pipeline that matches is kept
SelectPipeline_last(reg, ps, fmt) ==
  LET M == {i \in 1..Len(reg) : Matches(ps[reg[i]].cls, fmt)} IN
    IF M = {} THEN 0 ELSE reg[CHOOSE i \in M : \A j \in M : j <= i]

\* (mutant) without a match the first registered pipeline is used
SelectPipeline_fallback(reg, ps, fmt) ==
  IF ScanFrom(reg, ps, fmt, 1) # 0 THEN ScanFrom(reg, ps, fmt, 1)
  ELSE IF reg # <<>> THEN reg[1] ELSE 0

SelectPipeline(reg, ps, fmt) == ScanFrom(reg, ps, fmt, 1)

\* a call of NexusManager.process_data(data, format) is entered
RouteCall(data, fmt) ==
  /\ pc = "idle"
  /\ pc' = "lookup"
  /\ req' = [via |-> "route", data |-> data, fmt |-> fmt]
  /\ arg' = data
  /\ UNCHANGED <<impl, pipes, registry, sel, idx, cur, alias, trace, outcome, failedBefore, printed>>

Lookup ==
  /\ pc = "lookup"
  /\ sel' = SelectPipeline(registry, pipes, req.fmt)
  /\ pc' = IF sel' # 0 THEN "matched" ELSE "unmatched"
  /\ UNCHANGED <<impl, pipes, registry, req, idx, cur, arg, alias, trace, outcome, failedBefore, printed>>

\* print(f"[ERROR]: {format} is not a register pipeline")
ReportUnmatched ==
  /\ pc = "unmatched"
  /\ pc' = "reported"
  /\ outcome' = [NoOutcome EXCEPT !.kind = "reported", !.exc = "RoutingError", !.tag = req.fmt]
  /\ UNCHANGED <<impl, pipes, registry, req, sel, idx, cur, arg, alias, trace, failedBefore, printed>>

\* a direct call of pipeline.process(data)
DirectCall(p, data) ==
  /\ pc = "idle"
  /\ p \in 1..Len(pipes)
  /\ pc' = "matched"
  /\ req' = [via |-> "direct", data |-> data, fmt |-> ""]
  /\ sel' = p
  /\ arg' = data
  /\ UNCHANGED <<impl, pipes, registry, idx, cur, alias, trace, outcome, failedBefore, printed>>

\* XAdapter.process -> run_stages: tmp_data = data, the loop starts
JSONAdapter_process(stages) == stages
\* (mutant) the csv adapter leaves out the intake stage
CSVAdapter_process_noIntake(stages) == SelectSeq(stages, LAMBDA q : q # "InputStage")

CSVAdapter_process(stages) == stages
StreamAdapter_process(stages) == stages

\* the stage sequence the selected adapter's process method iterates over
Plan(p) ==
  CASE p.cls = "JSONAdapter" -> JSONAdapter_process(p.stages)
    [] p.cls = "CSVAdapter" -> CSVAdapter_process(p.stages)
    [] p.cls = "StreamAdapter" -> StreamAdapter_process(p.stages)

Begin ==
  /\ pc = "matched"
  /\ pc' = "stage"
  /\ idx' = 1
  /\ cur' = req.data
  /\ alias' = TRUE
  /\ UNCHANGED <<impl, pipes, registry, req, sel, arg, trace, outcome, failedBefore, printed>>

\* (mutant) the loop walks the stage list from its end
StepResult_reversed(im, p, i, data) == StageProcess(im, Plan(p)[Len(Plan(p)) - i + 1], data)

\* (mutant) a stage object remembers that an earlier call failed and refuses
StepResult_sticky(im, p, i, data) ==
  IF failedBefore THEN Raise("ValueError", "Data is empty")
  ELSE StageProcess(im, Plan(p)[i], data)

\* one iteration of the loop: tmp_data = stage.process(tmp_data)
StepResult(im, p, i, data) == StageProcess(im, Plan(p)[i], data)

\* (mutant) the failing stage is skipped and the loop continues
OnRaise_continue(r) ==
  /\ idx' = idx + 1
  /\ UNCHANGED <<pc, outcome, cur, arg, alias, pipes, registry>>

\* (mutant) the exception is caught and the payload so far is returned
OnRaise_swallow(r) ==
  /\ pc' = "completed"
  /\ outcome' = [NoOutcome EXCEPT !.kind = "completed", !.val = cur]
  /\ UNCHANGED <<idx, cur, arg, alias, pipes, registry>>

\* (mutant) the manager drops the pipeline that failed
OnRaise_evict(r) ==
  /\ pc' = "aborted"
  /\ outcome' = [NoOutcome EXCEPT !.kind = "aborted", !.exc = r.exc, !.msg = r.msg]
  /\ registry' = SelectSeq(registry, LAMBDA q : q # sel)
  /\ UNCHANGED <<idx, cur, arg, alias, pipes>>

\* the exception leaves the loop, run_stages, process and (no try/except
\* anywhere on the way) process_data: nothing is returned, nothing else runs
OnRaise(r) ==
  /\ pc' = "aborted"
  /\ outcome' = [NoOutcome EXCEPT !.kind = "aborted", !.exc = r.exc, !.msg = r.msg]
  /\ UNCHANGED <<idx, cur, arg, alias, pipes, registry>>

\* (mutant) the loop steps over the stage that follows
OnReturn_skip(r) ==
  /\ cur' = r.val
  /\ idx' = idx + 2
  /\ alias' = (alias /\ r.same)
  /\ arg' = IF alias /\ r.same THEN r.val ELSE arg
  /\ UNCHANGED <<pc, outcome, pipes, registry>>

\* tmp_data = <the returned value>; the loop goes on with the next stage
OnReturn(r) ==
  /\ cur' = r.val
  /\ idx' = idx + 1
  /\ alias' = (alias /\ r.same)
  /\ arg' = IF alias /\ r.same THEN r.val ELSE arg
  /\ UNCHANGED <<pc, outcome, pipes, registry>>

\* print(f"Tranform: {transformation}") / print(f"Output: {result}"): the line
\* is printed only when the stage gets as far as its print, and InputStage's
\* line (the repr of the payload) is left out
Printed(lines, stage, r) ==
  IF r.st = "raise" \/ stage = "InputStage" THEN lines
  ELSE Append(lines, [stage |-> stage, text |-> r.note])

StageStep ==
  /\ pc = "stage"
  /\ idx <= Len(Plan(pipes[sel]))
  /\ LET r == StepResult(impl, pipes[sel], idx, cur) IN
       /\ trace' = Append(trace, <<sel, idx>>)
       /\ printed' = Printed(printed, Plan(pipes[sel])[idx], r)
       /\ IF r.st = "raise" THEN OnRaise(r) ELSE OnReturn(r)
  /\ UNCHANGED <<impl, req, sel, failedBefore>>

\* return tmp_data
Complete ==
  /\ pc = "stage"
  /\ idx > Len(Plan(pipes[sel]))
  /\ pc' = "completed"
  /\ outcome' = [NoOutcome EXCEPT !.kind = "completed", !.val = cur]
  /\ UNCHANGED <<impl, pipes, registry, req, sel, idx, cur, arg, alias, trace, failedBefore, printed>>

\* the caller has its answer; the next call may start
Return ==
  /\ pc \in Terminal
  /\ pc' = "idle"
  /\ req' = NoReq /\ sel' = 0 /\ idx' = 0 /\ cur' = PNone /\ arg' = PNone
  /\ alias' = FALSE /\ trace' = <<>> /\ outcome' = NoOutcome /\ printed' = <<>>
  /\ failedBefore' = (failedBefore \/ pc \in {"aborted", "reported"})
  /\ UNCHANGED <<impl, pipes, registry>>

Next ==
  \/ \E c \in Classes : CreatePipeline(c)
  \/ \E p \in 1..MaxPipes : AddPipeline(p)
  \/ \E d \in RoutePayloads, f \in Formats : RouteCall(d, f)
  \/ Lookup
  \/ ReportUnmatched
  \/ \E p \in 1..MaxPipes, d \in RoutePayloads : DirectCall(p, d)
  \/ Begin
  \/ StageStep
  \/ Complete
  \/ Return

Spec == Init /\ [][Next]_vars

\* the manager driven through process_data only
NextRoute ==
  \/ \E c \in Classes : CreatePipeline(c)
  \/ \E p \in 1..MaxPipes : AddPipeline(p)
  \/ \E d \in RoutePayloads, f \in Formats : RouteCall(d, f)
  \/ Lookup
  \/ ReportUnmatched
  \/ Begin
  \/ StageStep
  \/ Complete
  \/ Return

NextPipe ==
  \/ \E s \in StageKinds : AddStage(1, s)
  \/ \E d \in Payloads : DirectCall(1, d)
  \/ Begin
  \/ StageStep
  \/ Complete
  \/ Return

SpecPipe == InitPipe /\ [][NextPipe]_vars

\* ProcessingPipeline.add_stage called by the code that has just received the
\* result (or the exception) of pipeline.process: the method has no guard
AddStageAfterRun(p, s) ==
  /\ pc \in {"completed", "aborted"}
  /\ p = sel
  /\ Len(pipes[p].stages) < MaxStages
  /\ pipes' = [pipes EXCEPT ![p].stages = Append(@, s)]
  /\ UNCHANGED <<impl, registry, callVars>>

\* the life of one pipeline object: stages attached before and after its runs
NextLife ==
  \/ \E s \in StageKinds : AddStage(1, s)
  \/ \E d \in RoutePayloads : DirectCall(1, d)
  \/ Begin
  \/ StageStep
  \/ Complete
  \/ \E s \in StageKinds : AddStageAfterRun(1, s)
  \/ Return

SpecLife == InitPipe /\ [][NextLife]_vars

\* main's chaining demo in nexus_pipeline.py: the json, csv and stream pipelines,
\* each with the three shared stages attached
InitChain ==
  /\ impl = "nexus"
  /\ pipes = [i \in 1..3 |->
               [cls |-> <<"JSONAdapter", "CSVAdapter", "StreamAdapter">>[i],
                stages |-> <<"InputStage", "TransformStage", "OutputStage">>]]
  /\ registry = <<>>
  /\ InitCall

\* result_a = json_pipeline.process(data_test)
ChainStart(data) ==
  /\ pc = "idle"
  /\ pc' = "matched"
  /\ req' = [via |-> "chain", data |-> data, fmt |-> ""]
  /\ sel' = 1
  /\ arg' = data
  /\ UNCHANGED <<impl, pipes, registry, idx, cur, alias, trace, outcome, failedBefore, printed>>

\* result_b = csv_pipeline.process(result_a); _ = stream_pipeline.process(result_b)
ChainNext ==
  /\ pc = "completed"
  /\ req.via = "chain"
  /\ sel < Len(pipes)
  /\ pc' = "matched"
  /\ req' = [req EXCEPT !.data = outcome.val]
  /\ sel' = sel + 1
  /\ arg' = outcome.val
  /\ idx' = 0 /\ cur' = PNone /\ alias' = FALSE
  /\ trace' = <<>> /\ outcome' = NoOutcome /\ printed' = <<>>
  /\ UNCHANGED <<impl, pipes, registry, failedBefore>>

NextChain ==
  \/ \E d \in Payloads : ChainStart(d)
  \/ Begin
  \/ StageStep
  \/ Complete
  \/ ChainNext
  \/ Return

SpecChain == InitChain /\ [][NextChain]_vars

\* the call chain is synchronous: once entered, every step of a call is taken
SpecFair ==
  /\ Init /\ [][NextRoute]_vars
  /\ WF_vars(Lookup) /\ WF_vars(ReportUnmatched) /\ WF_vars(Begin)
  /\ WF_vars(StageStep) /\ WF_vars(Complete)

\* =================================================================== claims
\* the stages attached to the pipeline the current call runs
SelStages == pipes[sel].stages

\* s_k(...s_2(s_1(x))...), by structural recursion on k
RECURSIVE Composed(_, _, _, _)
Composed(im, stages, x, k) ==
  IF k = 0 THEN x
  ELSE StageProcess(im, stages[k], Composed(im, stages, x, k - 1)).val

\* the failure kinds of the design, read off the raised exception
FailureKind(exc, msg) ==
  IF exc = "ValueError" /\ msg \in {"Data is empty", "Empty data received"} THEN "EmptyPayload"
  ELSE IF exc = "ValueError" /\ msg = "Invalid data format" THEN "InvalidFormat"
  ELSE "other"

\* C1: Pipeline.process(x) runs the attached stages in attachment order, each
\* exactly once, the value returned by one stage being the input of the next,
\* and returns s_n(...s_2(s_1(x))...).
C1_Composition ==
  pc \in {"stage", "completed"} =>
    /\ Len(trace) = idx - 1
    /\ \A j \in 1..Len(trace) : trace[j] = <<sel, j>>
    /\ cur = Composed(impl, SelStages, req.data, idx - 1)
    /\ pc = "completed" =>
         /\ idx - 1 = Len(SelStages)
         /\ outcome.kind = "completed"
         /\ outcome.val = Composed(impl, SelStages, req.data, Len(SelStages))

C1_Witness ==
  /\ pc = "completed"
  /\ SelStages = <<"TransformStage", "OutputStage", "InputStage">>
  /\ outcome.val # req.data

\* C2: once stage i raises, the call is aborted right after stage i: no stage
\* after i runs in this call and nothing is returned.
C2_FailFast ==
  /\ [](pc = "aborted" =>
          /\ outcome.kind = "aborted" /\ outcome.val = PNone
          /\ Len(trace) = idx
          /\ \A j \in 1..Len(trace) : trace[j] = <<sel, j>>)
  /\ [][(/\ pc = "stage"
         /\ idx <= Len(SelStages)
         /\ StageProcess(impl, SelStages[idx], cur).st = "raise")
        => (pc' = "aborted" /\ idx' = idx /\ trace' = Append(trace, <<sel, idx>>))]_vars
  /\ [][pc = "aborted" => (pc' = "idle" /\ trace' = <<>>)]_vars

C2_Witness ==
  /\ pc = "aborted"
  /\ idx = 2
  /\ Len(SelStages) = 3

\* C3: a failure raised by a stage reaches the caller of Pipeline.process and of
\* NexusManager.process_data with the kind the stage raised; it is not turned
\* into a normal result and the stage is not run again.
C3_Propagation ==
  /\ [][(/\ pc = "stage"
         /\ idx <= Len(SelStages)
         /\ StageProcess(impl, SelStages[idx], cur).st = "raise")
        => LET r == StageProcess(impl, SelStages[idx], cur) IN
             /\ pc' = "aborted"
             /\ outcome'.kind = "aborted"
             /\ outcome'.exc = r.exc /\ outcome'.msg = r.msg
             /\ FailureKind(outcome'.exc, outcome'.msg) \in {"EmptyPayload", "InvalidFormat"}]_vars
  /\ [](pc = "aborted" =>
          /\ outcome.kind = "aborted"
          /\ \A j, k \in 1..Len(trace) : trace[j] = trace[k] => j = k)

C3_Witness ==
  /\ pc = "aborted"
  /\ req.via = "route"
  /\ FailureKind(outcome.exc, outcome.msg) = "InvalidFormat"

\* the positions of the registry whose pipeline carries the tag of the request
Matching == {i \in 1..Len(registry) : Matches(pipes[registry[i]].cls, req.fmt)}

\* C4: when several registered pipelines carry the requested tag, every route
\* call runs the earliest registered of them and no stage of any other one.
C4_FirstRegisteredWins ==
  (req.via = "route" /\ pc \in {"matched", "stage", "completed", "aborted"}) =>
    /\ Matching # {}
    /\ \E i \in Matching : (\A j \in Matching : i <= j) /\ sel = registry[i]
    /\ \A j \in 1..Len(trace) : trace[j][1] = sel

C4_Witness ==
  /\ req.via = "route" /\ pc = "completed"
  /\ Len(registry) = 2 /\ registry[1] # registry[2]
  /\ Matching = {1, 2}
  /\ sel = registry[1]
  /\ Len(trace) = 3
  /\ failedBefore

\* C5: a route call with a tag no registered pipeline carries (the registry may
\* be empty) reports a RoutingError naming the tag, runs no stage and raises
\* nothing.
C5_Unregistered ==
  (req.via = "route" /\ pc \notin {"idle", "lookup"} /\ Matching = {}) =>
    /\ pc \in {"unmatched", "reported"}
    /\ sel = 0
    /\ trace = <<>>
    /\ outcome.kind # "aborted"
    /\ pc = "reported" =>
         outcome = [NoOutcome EXCEPT !.kind = "reported", !.exc = "RoutingError", !.tag = req.fmt]

C5_Witness ==
  /\ pc = "reported"
  /\ Len(registry) = 2
  /\ req.fmt = "csv"
  /\ outcome.tag = "csv"

\* the outcome of running the stages from position k on with input x
RECURSIVE FoldFrom(_, _, _, _)
FoldFrom(im, stages, x, k) ==
  IF k > Len(stages) THEN [NoOutcome EXCEPT !.kind = "completed", !.val = x]
  ELSE LET r == StageProcess(im, stages[k], x) IN
         IF r.st = "raise"
           THEN [NoOutcome EXCEPT !.kind = "aborted", !.exc = r.exc, !.msg = r.msg]
           ELSE FoldFrom(im, stages, r.val, k + 1)

\* what a route call answers for a given registry and given pipelines
RouteOutcome(im, reg, ps, data, fmt) ==
  LET M == {i \in 1..Len(reg) : Matches(ps[reg[i]].cls, fmt)} IN
    IF M = {} THEN [NoOutcome EXCEPT !.kind = "reported", !.exc = "RoutingError", !.tag = fmt]
    ELSE FoldFrom(im, ps[reg[CHOOSE i \in M : \A j \in M : i <= j]].stages, data, 1)

\* C6: a failed request (RoutingError or a stage failure) leaves the registry
\* and every pipeline's stage sequence as they were, and a later route call
\* answers what the registry and the pipelines determine.
C6_FailureLeavesManagerIntact ==
  /\ [][(pc # "idle" \/ pc' # "idle") => (pipes' = pipes /\ registry' = registry)]_vars
  /\ []((failedBefore /\ req.via = "route" /\ pc \in Terminal) =>
          outcome = RouteOutcome(impl, registry, pipes, req.data, req.fmt))

C6_Witness ==
  /\ failedBefore
  /\ req.via = "route" /\ pc = "completed"
  /\ req.data = PStr(CsvText)
  /\ Len(trace) = 3

\* the moves of one request
TransitionOK ==
  \/ pc = "idle" /\ pc' = "idle"
  \/ pc = "idle" /\ pc' = "lookup" /\ req'.via = "route"
  \/ pc = "idle" /\ pc' = "matched" /\ req'.via = "direct"
  \/ pc = "lookup" /\ pc' \in {"matched", "unmatched"}
  \/ pc = "unmatched" /\ pc' = "reported"
  \/ pc = "matched" /\ pc' = "stage" /\ idx' = 1
  \/ pc = "stage" /\ pc' = "stage" /\ idx <= Len(SelStages) /\ idx' = idx + 1
  \/ pc = "stage" /\ pc' = "aborted" /\ idx <= Len(SelStages) /\ idx' = idx
  \/ pc = "stage" /\ pc' = "completed" /\ idx = Len(SelStages) + 1
  \/ pc \in Terminal /\ pc' = "idle"

\* C7: a routing request goes Idle -> Lookup -> Matched | Unmatched; unmatched
\* ends in Reported, matched runs stage i then stage i+1 and ends in Completed
\* after the last stage or in Aborted at the first failing one; every request
\* reaches a terminal state.
C7_RequestStateMachine ==
  /\ [][TransitionOK]_vars
  /\ [](pc = "reported" => (sel = 0 /\ outcome.kind = "reported"))
  /\ [](pc \in {"completed", "aborted"} => (sel # 0 /\ outcome.kind = pc))
  /\ (pc \in {"lookup", "matched", "unmatched", "stage"}) ~> (pc \in Terminal)

C7_Witness ==
  /\ req.via = "route"
  /\ pc = "completed"
  /\ idx = 4
  /\ ~failedBefore

\* C8: pipelines of the three adapter classes with the same stages attached in
\* the same order run the same stage sequence and end in the same outcome.
C8_TagIsRoutingKeyOnly ==
  pc \in {"completed", "aborted"} =>
    \A c \in Classes :
      /\ Plan([cls |-> c, stages |-> SelStages]) = Plan(pipes[sel])
      /\ FoldFrom(impl, Plan([cls |-> c, stages |-> SelStages]), req.data, 1) = outcome

C8_Witness ==
  /\ pc = "completed"
  /\ pipes[sel].cls = "CSVAdapter"
  /\ SelStages = <<"InputStage", "TransformStage", "OutputStage">>
  /\ outcome.val # req.data

\* TransformStage.process is applied to data in this step
TransformActsOn(data) ==
  /\ pc = "stage"
  /\ idx <= Len(SelStages)
  /\ SelStages[idx] = "TransformStage"
  /\ cur = data

\* C9: for a record with a "sensor" field TransformStage.process returns a
\* record in which every field of the input keeps its value ("sensor" included)
\* and a validity marker is set.
C9_SensorRecordKept ==
  [][(impl \in {"nexus", "ex3"} /\ TransformActsOn(cur) /\ IsDict(cur) /\ Has(cur, "sensor")) =>
       /\ pc' = "stage"
       /\ IsDict(cur')
       /\ \A k \in Keys : Has(cur, k) => cur'.rec[k] = cur.rec[k]
       /\ \E k \in Keys : cur'.rec[k] = VStr(<<"valid">>)]_vars

\* C10: for a record without a "sensor" field TransformStage.process fails with
\* InvalidFormat and returns nothing.
C10_NoSensorFails ==
  [][(TransformActsOn(cur) /\ IsDict(cur) /\ ~Has(cur, "sensor")) =>
       /\ pc' = "aborted"
       /\ FailureKind(outcome'.exc, outcome'.msg) = "InvalidFormat"]_vars

\* stage kind k is applied to the current payload in this step
StageActs(k) ==
  /\ pc = "stage"
  /\ idx <= Len(SelStages)
  /\ SelStages[idx] = k

\* the payloads Python treats as false: None, "", 0 and {}
Falsy == {PNone, PStr(<<>>), PNum("0", 0), PDict(EmptyRec)}

\* C11: InputStage.process fails with EmptyPayload for every empty, absent or
\* falsy payload (empty text, empty record, None, zero), and then no later
\* stage of the pipeline runs.
C11_EmptyPayloadFails ==
  /\ [][(StageActs("InputStage") /\ cur \in Falsy) =>
          /\ pc' = "aborted"
          /\ FailureKind(outcome'.exc, outcome'.msg) = "EmptyPayload"
          /\ trace' = Append(trace, <<sel, idx>>)]_vars
  /\ [][pc = "aborted" => pc' = "idle"]_vars

\* C12: for every non-empty payload (record, text or opaque token)
\* InputStage.process returns exactly the payload it received and does not fail.
C12_IntakeIsIdentity ==
  [][(StageActs("InputStage") /\ cur \notin Falsy) =>
       /\ pc' = "stage"
       /\ idx' = idx + 1
       /\ cur' = cur]_vars

C12_Witness ==
  /\ impl = "nexus"
  /\ pc = "stage" /\ idx = 2
  /\ SelStages[1] = "InputStage"
  /\ IsDict(cur) /\ Has(cur, "sfga")
  /\ cur = req.data

\* the tokens put together again with the delimiter between them
RECURSIVE Join(_, _)
Join(toks, i) ==
  IF i > Len(toks) THEN <<>>
  ELSE (IF i > 1 THEN <<",">> ELSE <<>>) \o toks[i] \o Join(toks, i + 1)

\* the field of the csv record that holds the tokens ("fields" in the design)
FieldsKey(im) == IF im = "nexus" THEN "data" ELSE "headers"

\* C13: for every text containing the delimiter TransformStage.process returns
\* a new record {type: "csv", data/headers: the tokens of the text in their
\* order, count: 1}; count is 1 whatever the number of tokens.
C13_CsvRecord ==
  [][(impl \in {"nexus", "ex3"} /\ StageActs("TransformStage") /\ IsStr(cur) /\ HasComma(cur.txt)) =>
       /\ pc' = "stage"
       /\ IsDict(cur')
       /\ {k \in Keys : Has(cur', k)} = {"type", "count", FieldsKey(impl)}
       /\ cur'.rec["type"] = VStr(<<"csv">>)
       /\ cur'.rec["count"] = VNum("1", 10)
       /\ LET f == cur'.rec[FieldsKey(impl)] IN
            /\ f.ty = "list"
            /\ Len(f.lst) = Cardinality({i \in 1..Len(cur.txt) : cur.txt[i] = ","}) + 1
            /\ \A i \in 1..Len(f.lst) : ~HasComma(f.lst[i])
            /\ Join(f.lst, 1) = cur.txt]_vars

C13_Witness ==
  /\ impl = "nexus"
  /\ pc = "stage" /\ idx = 2
  /\ SelStages[1] = "TransformStage"
  /\ req.data = PStr(<<",", "action", ",">>)
  /\ cur.rec["data"] = VList(<<<<>>, <<"action">>, <<>>>>)
  /\ cur.rec["count"] = VNum("1", 10)

\* the three stages in the order main attaches them
Canon == <<"InputStage", "TransformStage", "OutputStage">>

\* the line OutputStage printed last in the current call
LastOutput == printed[Len(printed)]

\* C14: the value Pipeline.process returns for a three-stage pipeline is the
\* string OutputStage rendered, not the payload; routing {sensor: "temp",
\* value: 23.5, unit: "C"} with "json" yields
\* "Processed temperature reading: 23.5 (Normal range)".
C14_ReturnsRenderedString ==
  (pc = "completed" /\ SelStages = Canon) =>
    /\ printed # <<>>
    /\ LastOutput.stage = "OutputStage"
    /\ outcome.val = PStr(LastOutput.text)
    /\ (req.via = "route" /\ req.fmt = "json" /\ req.data = SensorRecord) =>
         outcome.val = PStr(<<"Processed temperature reading: ", "23.5", " (Normal range)">>)

C16_StagesFixedAfterRun ==
  [][(pc \in {"completed", "aborted"}) =>
       (pipes'[sel].stages = pipes[sel].stages /\ pipes'[sel].cls = pipes[sel].cls)]_vars

\* C17: the stage instances shared by the pipelines keep nothing from one call
\* to the next: whatever ran before (on this or another pipeline, failed or
\* not), the outcome of a call is the one its payload and the stage sequence of
\* its pipeline determine, and so is what remains of it at every stage.
C17_NoCrossInvocationState ==
  /\ pc = "stage" =>
       FoldFrom(impl, SelStages, cur, idx) = FoldFrom(impl, SelStages, req.data, 1)
  /\ pc \in {"completed", "aborted"} =>
       outcome = FoldFrom(impl, SelStages, req.data, 1)

C17_Witness ==
  /\ failedBefore
  /\ req.via = "direct" /\ sel = 2
  /\ req.data = SensorRecord
  /\ pc = "completed" /\ idx = 4

\* C18: chaining in nexus_pipeline.py: for every record with a "sensor" key no
\* pipeline of the chain fails, each hands a record with "sensor" to the next,
\* and the second and the third pipeline return the payload they were given,
\* unchanged.
C18_ChainKeepsPayload ==
  (req.via = "chain" /\ IsDict(req.data) /\ Has(req.data, "sensor")) =>
    /\ pc # "aborted"
    /\ pc = "completed" =>
         /\ IsDict(outcome.val) /\ Has(outcome.val, "sensor")
         /\ sel >= 2 => (outcome.val = req.data /\ arg = req.data)

C18_Witness ==
  /\ req.via = "chain" /\ sel = 3
  /\ IsDict(req.data) /\ Has(req.data, "sensor")
  /\ pc = "completed"
  /\ outcome.val = req.data

\* C19: in an input/transform/output pipeline of nexus_pipeline.py OutputStage
\* never fails, whatever payload the pipeline is called with: a call that fails
\* fails with a ValueError raised by InputStage or by TransformStage.
C19_OnlyIntakeAndTransformFail ==
  (pc \in {"stage", "completed", "aborted"} /\ impl = "nexus" /\ SelStages = Canon) =>
    /\ StageActs("OutputStage") => StageProcess(impl, "OutputStage", cur).st = "ok"
    /\ pc = "aborted" =>
         /\ outcome.exc = "ValueError"
         /\ idx \in {1, 2}
         /\ Len(trace) = idx

C19_Witness ==
  /\ pc = "completed" /\ idx = 4
  /\ impl = "nexus" /\ SelStages = Canon
  /\ IsDict(cur) /\ ~Has(cur, "sensor")

====
